---- MODULE Spec2Model ----
(***************************************************************************)
(* A model of the assembler and the virtual machine of the repository.     *)
(*                                                                         *)
(*   Spec       VirtualMachine::run on program bytes (src/vm.rs)           *)
(*   SpecBytes  AssemblerInstruction::to_bytes on single instructions      *)
(*   SpecAsm    Assembler::assemble on parsed programs                     *)
(*   SpecImage  the image-building code of assemble (second phase and      *)
(*              write_pie_header) followed by VirtualMachine::run          *)
(*                                                                         *)
(* Conventions.  Vec<T> is a sequence, Option<T> a sequence of length 0    *)
(* or 1.  Vec indices of the source are 0-based: the model adds 1.         *)
(* An i32 is an integer in MinI32..MaxI32.  A usize x is represented by x  *)
(* when x < 2^63 and by x - 2^64 otherwise, so that `v as usize` of an     *)
(* i32 v is v itself and a negative representative means "huge".           *)
(* A panic or process::exit ends the operation in the state "aborted".     *)
(* Where the result depends on the build (overflow checks on or off) both  *)
(* outcomes are possible.                                                  *)
(***************************************************************************)
EXTENDS Integers, Sequences, FiniteSets, TLC

VARIABLES
    \* VirtualMachine (src/vm.rs:46-74)
    program, pc, registers, remainder, equal_flag, heap, ro_data, events,
    \* position inside VirtualMachine::run and its local is_done
    ctl, is_done, steps,
    \* Assembler (src/assembler/mod.rs:37-49) and the Program it works on
    instructions, symbols, ro, sections, current_section,
    current_instruction, errors, phase,
    \* position inside Assembler::assemble, its locals and its result
    actl, source_parses, leftover, body, result,
    \* AssemblerInstruction::to_bytes applied on its own
    instr, instr_symbols, instr_bytes,
    \* the last call made on the SymbolTable (src/assembler/symbols.rs)
    sym_call,
    \* REPL (src/repl/mod.rs:14-18): the lines entered so far
    command_buffer,
    \* what the completed calls of VirtualMachine::run returned, in order
    run_results

vmVars == <<program, pc, registers, remainder, equal_flag, heap, ro_data,
            events, ctl, is_done, steps>>
asmVars == <<instructions, symbols, ro, sections, current_section,
             current_instruction, errors, phase, actl, source_parses,
             leftover, body, result>>
bytesVars == <<instr, instr_symbols, instr_bytes>>
symVars == <<sym_call>>
replVars == <<command_buffer>>
runVars == <<run_results>>
vars == <<vmVars, asmVars, bytesVars, symVars, replVars, runVars>>

-----------------------------------------------------------------------------
(* Bounds of the model *)

\* instructions in the code of a drawn VM program
MaxCode == 2
\* executed instructions of one run
MaxSteps == 6

-----------------------------------------------------------------------------
(* Integers of the program *)

MaxI32 == 2147483647
MinI32 == (-MaxI32) - 1

None == <<>>
Some(x) == <<x>>

\* i32 addition: does it overflow, and the wrapped result
AddOverflows(a, b) == (b > 0 /\ a > MaxI32 - b) \/ (b < 0 /\ a < MinI32 - b)
WrapAdd(a, b) ==
    IF b > 0 /\ a > MaxI32 - b THEN (a + MinI32) + (b + MinI32)
    ELSE IF b < 0 /\ a < MinI32 - b THEN (a - MinI32) + (b - MinI32)
    ELSE a + b

SubOverflows(a, b) == (b < 0 /\ a > MaxI32 + b) \/ (b > 0 /\ a < MinI32 + b)
WrapSub(a, b) ==
    IF b < 0 /\ a > MaxI32 + b THEN (a + MinI32) - (b - MinI32)
    ELSE IF b > 0 /\ a < MinI32 + b THEN (a - MinI32) - (b + MinI32)
    ELSE a - b

\* byte k (0..3) of the two's complement form of an i32
ByteOf(x, k) ==
    CASE k = 0 -> x % 256
      [] k = 1 -> (x \div 256) % 256
      [] k = 2 -> (x \div 65536) % 256
      [] k = 3 -> (x \div 16777216) % 256

\* the i32 of four little-endian bytes
FromLeBytes(b0, b1, b2, b3) ==
    b0 + 256 * b1 + 65536 * b2 + 16777216 * (IF b3 > 127 THEN b3 - 256 ELSE b3)

\* i32 multiplication modulo 2^32, byte by byte
WrapMul(a, b) ==
    LET c0 == ByteOf(a, 0) * ByteOf(b, 0)
        c1 == ByteOf(a, 0) * ByteOf(b, 1) + ByteOf(a, 1) * ByteOf(b, 0)
              + (c0 \div 256)
        c2 == ByteOf(a, 0) * ByteOf(b, 2) + ByteOf(a, 1) * ByteOf(b, 1)
              + ByteOf(a, 2) * ByteOf(b, 0) + (c1 \div 256)
        c3 == ByteOf(a, 0) * ByteOf(b, 3) + ByteOf(a, 1) * ByteOf(b, 2)
              + ByteOf(a, 2) * ByteOf(b, 1) + ByteOf(a, 3) * ByteOf(b, 0)
              + (c2 \div 256)
    IN  FromLeBytes(c0 % 256, c1 % 256, c2 % 256, c3 % 256)

\* Rust's / and % on i32 (truncating), for y # 0 and not (x = MinI32, y = -1)
TruncDivPos(x, y) ==
    IF x >= 0 \/ x % y = 0 THEN x \div y ELSE (x \div y) + 1
TruncDiv(x, y) ==
    IF y > 0 THEN TruncDivPos(x, y)
    ELSE IF y = MinI32 THEN (IF x = MinI32 THEN 1 ELSE 0)
    ELSE -TruncDivPos(x, -y)
TruncRem(x, y) == x - y * TruncDiv(x, y)

MulOverflows(a, b) ==
    /\ a # 0
    /\ b # 0
    /\ \/ (a = -1 /\ b = MinI32)
       \/ (b = -1 /\ a = MinI32)
       \/ (~(a = -1 /\ b = MinI32) /\ ~(b = -1 /\ a = MinI32)
           /\ TruncDiv(WrapMul(a, b), a) # b)
       \/ (~(a = -1 /\ b = MinI32) /\ ~(b = -1 /\ a = MinI32)
           /\ TruncRem(WrapMul(a, b), a) # 0)

\* comparisons and arithmetic of usize values in their representation
UGeq(x, n) == x < 0 \/ x >= n
ULess(x, y) ==
    IF x >= 0 /\ y >= 0 THEN x < y
    ELSE IF x >= 0 THEN TRUE
    ELSE IF y >= 0 THEN FALSE
    ELSE x < y
UAddOverflows(x, y) ==
    (x < 0 /\ y < 0) \/ (x < 0 /\ y >= 0 /\ x + y >= 0)
    \/ (x >= 0 /\ y < 0 /\ x + y >= 0)

-----------------------------------------------------------------------------
(* The opcode table *)

OpcodeTable ==
    <<"LOAD", "ADD", "SUB", "MUL", "DIV", "HLT", "JMP", "JMPF", "JMPB",
      "EQ", "NEQ", "GT", "LT", "GTQ", "LTQ", "JEQ", "JNEQ", "ALOC", "INC",
      "DEC", "LUI", "PRTS", "IGL">>

OpcodeFrom_undefined_is_hlt(b) ==
    IF b + 1 \in 1..Len(OpcodeTable) THEN OpcodeTable[b + 1] ELSE "HLT"

\* Opcode::from(u8)
OpcodeFrom(b) ==
    IF b + 1 \in 1..Len(OpcodeTable) THEN OpcodeTable[b + 1] ELSE "IGL"

\* `code as u8`
OpcodeByte(code) == (CHOOSE i \in 1..Len(OpcodeTable) : OpcodeTable[i] = code) - 1

-----------------------------------------------------------------------------
(* Constants of the image layout *)

PIE_HEADER_PREFIX == <<69, 80, 73, 69>>
PIE_HEADER_LENGTH == 64

Zeros(n) == [i \in 1..n |-> 0]

-----------------------------------------------------------------------------
(* VirtualMachine::execute_instruction                                     *)
(*                                                                         *)
(* The machine state an instruction works on is the record                 *)
(*   m = [pc, registers, remainder, equal_flag, heap].                     *)
(* An outcome is [ret, m, panic]: ret is the Option<u32> returned.  The    *)
(* remainder, a u32, is represented like a usize (x - 2^32 when x >= 2^31).*)

Continue(m) == [ret |-> None, m |-> m, panic |-> FALSE]
Return(c, m) == [ret |-> Some(c), m |-> m, panic |-> FALSE]
Panic(m) == [ret |-> None, m |-> m, panic |-> TRUE]

\* an arithmetic overflow panics with overflow checks and wraps without
OnOverflow(overflows, m, wrapped) ==
    IF overflows THEN {Panic(m), Continue(wrapped)} ELSE {Continue(wrapped)}

\* program[i] exists
InProgram(prog, i) == i >= 0 /\ i < Len(prog)
ByteAt(prog, i) == prog[i + 1]

\* the three operand bytes at m.pc can be read and index the register file
ThreeRegistersOk(prog, m) ==
    /\ InProgram(prog, m.pc + 2)
    /\ ByteAt(prog, m.pc) < 32
    /\ ByteAt(prog, m.pc + 1) < 32
    /\ ByteAt(prog, m.pc + 2) < 32

ExecArith_operands_swapped(prog, m, op) ==
    IF ~ThreeRegistersOk(prog, m) THEN {Panic(m)}
    ELSE
    LET register_one == m.registers[ByteAt(prog, m.pc + 1)]
        register_two == m.registers[ByteAt(prog, m.pc)]
        dest == ByteAt(prog, m.pc + 2)
        overflows == CASE op = "ADD" -> AddOverflows(register_one, register_two)
                       [] op = "SUB" -> SubOverflows(register_one, register_two)
                       [] op = "MUL" -> MulOverflows(register_one, register_two)
        value == CASE op = "ADD" -> WrapAdd(register_one, register_two)
                   [] op = "SUB" -> WrapSub(register_one, register_two)
                   [] op = "MUL" -> WrapMul(register_one, register_two)
    IN  OnOverflow(overflows, m,
                   [m EXCEPT !.pc = m.pc + 3, !.registers[dest] = value])

\* ADD, SUB, MUL
ExecArith(prog, m, op) ==
    IF ~ThreeRegistersOk(prog, m) THEN {Panic(m)}
    ELSE
    LET register_one == m.registers[ByteAt(prog, m.pc)]
        register_two == m.registers[ByteAt(prog, m.pc + 1)]
        dest == ByteAt(prog, m.pc + 2)
        overflows == CASE op = "ADD" -> AddOverflows(register_one, register_two)
                       [] op = "SUB" -> SubOverflows(register_one, register_two)
                       [] op = "MUL" -> MulOverflows(register_one, register_two)
        value == CASE op = "ADD" -> WrapAdd(register_one, register_two)
                   [] op = "SUB" -> WrapSub(register_one, register_two)
                   [] op = "MUL" -> WrapMul(register_one, register_two)
    IN  OnOverflow(overflows, m,
                   [m EXCEPT !.pc = m.pc + 3, !.registers[dest] = value])

ExecDiv(prog, m) ==
    IF ~ThreeRegistersOk(prog, m) THEN {Panic(m)}
    ELSE
    LET register_one == m.registers[ByteAt(prog, m.pc)]
        register_two == m.registers[ByteAt(prog, m.pc + 1)]
        dest == ByteAt(prog, m.pc + 2)
    IN  IF register_two = 0 \/ (register_one = MinI32 /\ register_two = -1)
        THEN {Panic(m)}
        ELSE {Continue([m EXCEPT
                 !.pc = m.pc + 3,
                 !.registers[dest] = TruncDiv(register_one, register_two),
                 !.remainder = TruncRem(register_one, register_two)])}

ExecLoad_sign_extended(prog, m) ==
    IF ~InProgram(prog, m.pc + 2) \/ ByteAt(prog, m.pc) > 31 THEN {Panic(m)}
    ELSE
    LET register == ByteAt(prog, m.pc)
        number == ByteAt(prog, m.pc + 1) * 256 + ByteAt(prog, m.pc + 2)
        signed == IF number >= 32768 THEN number - 65536 ELSE number
    IN  {Continue([m EXCEPT !.pc = m.pc + 3, !.registers[register] = signed])}

ExecLoad(prog, m) ==
    IF ~InProgram(prog, m.pc + 2) \/ ByteAt(prog, m.pc) > 31 THEN {Panic(m)}
    ELSE
    LET register == ByteAt(prog, m.pc)
        number == ByteAt(prog, m.pc + 1) * 256 + ByteAt(prog, m.pc + 2)
    IN  {Continue([m EXCEPT !.pc = m.pc + 3, !.registers[register] = number])}

ExecJump_from_instruction_start(prog, m, op) ==
    IF ~InProgram(prog, m.pc) \/ ByteAt(prog, m.pc) > 31 THEN {Panic(m)}
    ELSE
    LET value == m.registers[ByteAt(prog, m.pc)]
        at == m.pc - 1
    IN  CASE op = "JMP" -> {Continue([m EXCEPT !.pc = value])}
          [] op = "JMPB" ->
                OnOverflow(ULess(at, value), m, [m EXCEPT !.pc = at - value])
          [] op = "JMPF" ->
                OnOverflow(UAddOverflows(at, value), m,
                           [m EXCEPT !.pc = at + value])

\* JMP, JMPB, JMPF
ExecJump(prog, m, op) ==
    IF ~InProgram(prog, m.pc) \/ ByteAt(prog, m.pc) > 31 THEN {Panic(m)}
    ELSE
    LET value == m.registers[ByteAt(prog, m.pc)]
        at == m.pc + 1
    IN  CASE op = "JMP" -> {Continue([m EXCEPT !.pc = value])}
          [] op = "JMPB" ->
                OnOverflow(ULess(at, value), m, [m EXCEPT !.pc = at - value])
          [] op = "JMPF" ->
                OnOverflow(UAddOverflows(at, value), m,
                           [m EXCEPT !.pc = at + value])

ExecCompare_all_strict(prog, m, op) ==
    IF ~InProgram(prog, m.pc + 2)
       \/ ByteAt(prog, m.pc) > 31 \/ ByteAt(prog, m.pc + 1) > 31
    THEN {Panic(m)}
    ELSE
    LET register_one == m.registers[ByteAt(prog, m.pc)]
        register_two == m.registers[ByteAt(prog, m.pc + 1)]
        flag == CASE op = "EQ" -> register_one = register_two
                  [] op = "NEQ" -> register_one # register_two
                  [] op = "GT" -> register_one > register_two
                  [] op = "LT" -> register_one < register_two
                  [] op = "GTQ" -> register_one > register_two
                  [] op = "LTQ" -> register_one < register_two
    IN  {Continue([m EXCEPT !.pc = m.pc + 3, !.equal_flag = flag])}

\* EQ, NEQ, GT, LT, GTQ, LTQ
ExecCompare(prog, m, op) ==
    IF ~InProgram(prog, m.pc + 2)
       \/ ByteAt(prog, m.pc) > 31 \/ ByteAt(prog, m.pc + 1) > 31
    THEN {Panic(m)}
    ELSE
    LET register_one == m.registers[ByteAt(prog, m.pc)]
        register_two == m.registers[ByteAt(prog, m.pc + 1)]
        flag == CASE op = "EQ" -> register_one = register_two
                  [] op = "NEQ" -> register_one # register_two
                  [] op = "GT" -> register_one > register_two
                  [] op = "LT" -> register_one < register_two
                  [] op = "GTQ" -> register_one >= register_two
                  [] op = "LTQ" -> register_one <= register_two
    IN  {Continue([m EXCEPT !.pc = m.pc + 3, !.equal_flag = flag])}

\* JEQ, JNEQ
ExecCondJump(prog, m, op) ==
    IF ~InProgram(prog, m.pc) \/ ByteAt(prog, m.pc) > 31 THEN {Panic(m)}
    ELSE
    LET target == m.registers[ByteAt(prog, m.pc)]
        taken == IF op = "JEQ" THEN m.equal_flag ELSE ~m.equal_flag
    IN  {Continue([m EXCEPT !.pc = IF taken THEN target ELSE m.pc + 1])}

\* Vec::resize(n, 0)
Resize(h, n) == IF n >= Len(h) THEN h \o Zeros(n - Len(h)) ELSE SubSeq(h, 1, n)

ExecAloc_one_byte_more(prog, m) ==
    IF ~InProgram(prog, m.pc) \/ ByteAt(prog, m.pc) > 31 THEN {Panic(m)}
    ELSE
    LET bytes == m.registers[ByteAt(prog, m.pc)]
        new_end == WrapAdd(Len(m.heap), bytes) + 1
    IN  IF new_end < 0 THEN {Panic(m)}
        ELSE OnOverflow(AddOverflows(Len(m.heap), bytes), m,
                        [m EXCEPT !.pc = m.pc + 1,
                                  !.heap = Resize(m.heap, new_end)])

ExecAloc(prog, m) ==
    IF ~InProgram(prog, m.pc) \/ ByteAt(prog, m.pc) > 31 THEN {Panic(m)}
    ELSE
    LET bytes == m.registers[ByteAt(prog, m.pc)]
        new_end == WrapAdd(Len(m.heap), bytes)
    IN  IF new_end < 0 THEN {Panic(m)}
        ELSE OnOverflow(AddOverflows(Len(m.heap), bytes), m,
                        [m EXCEPT !.pc = m.pc + 1,
                                  !.heap = Resize(m.heap, new_end)])

\* INC, DEC
ExecIncDec(prog, m, op) ==
    IF ~InProgram(prog, m.pc + 2) \/ ByteAt(prog, m.pc) > 31 THEN {Panic(m)}
    ELSE
    LET register == ByteAt(prog, m.pc)
        old == m.registers[register]
        overflows == IF op = "INC" THEN old = MaxI32 ELSE old = MinI32
        value == IF op = "INC" THEN WrapAdd(old, 1) ELSE WrapSub(old, 1)
    IN  OnOverflow(overflows, m,
                   [m EXCEPT !.pc = m.pc + 3, !.registers[register] = value])

\* the first index >= from of a zero byte of data; Len(data) + 1 when none
RECURSIVE FindNul(_, _)
FindNul(data, from) ==
    IF from > Len(data) THEN Len(data) + 1
    ELSE IF data[from] = 0 THEN from
    ELSE FindNul(data, from + 1)

ExecPrts(prog, ro_bytes, m) ==
    IF ~InProgram(prog, m.pc + 1) THEN {Panic(m)}
    ELSE
    LET starting_offset == ByteAt(prog, m.pc) * 256 + ByteAt(prog, m.pc + 1)
    IN  IF FindNul(ro_bytes, starting_offset + 1) > Len(ro_bytes)
        THEN {Panic(m)}
        ELSE {Continue([m EXCEPT !.pc = m.pc + 2])}

execute_instruction_igl_continues(prog, ro_bytes, m0) ==
    IF UGeq(m0.pc, Len(prog)) THEN {Return(1, m0)}
    ELSE
    LET op == OpcodeFrom(ByteAt(prog, m0.pc))
        m == [m0 EXCEPT !.pc = m0.pc + 1]
    IN  CASE op \in {"ADD", "SUB", "MUL"} -> ExecArith(prog, m, op)
          [] op = "DIV" -> ExecDiv(prog, m)
          [] op = "LOAD" -> ExecLoad(prog, m)
          [] op = "HLT" -> {Return(1, m)}
          [] op \in {"JMP", "JMPB", "JMPF"} -> ExecJump(prog, m, op)
          [] op \in {"EQ", "NEQ", "GT", "LT", "GTQ", "LTQ"} ->
                ExecCompare(prog, m, op)
          [] op \in {"JEQ", "JNEQ"} -> ExecCondJump(prog, m, op)
          [] op = "ALOC" -> ExecAloc(prog, m)
          [] op = "IGL" -> {Continue(m)}
          [] op \in {"INC", "DEC"} -> ExecIncDec(prog, m, op)
          [] op = "LUI" -> {Continue(m)}
          [] op = "PRTS" -> ExecPrts(prog, ro_bytes, m)

execute_instruction(prog, ro_bytes, m0) ==
    IF UGeq(m0.pc, Len(prog)) THEN {Return(1, m0)}
    ELSE
    LET op == OpcodeFrom(ByteAt(prog, m0.pc))
        m == [m0 EXCEPT !.pc = m0.pc + 1]
    IN  CASE op \in {"ADD", "SUB", "MUL"} -> ExecArith(prog, m, op)
          [] op = "DIV" -> ExecDiv(prog, m)
          [] op = "LOAD" -> ExecLoad(prog, m)
          [] op = "HLT" -> {Return(1, m)}
          [] op \in {"JMP", "JMPB", "JMPF"} -> ExecJump(prog, m, op)
          [] op \in {"EQ", "NEQ", "GT", "LT", "GTQ", "LTQ"} ->
                ExecCompare(prog, m, op)
          [] op \in {"JEQ", "JNEQ"} -> ExecCondJump(prog, m, op)
          [] op = "ALOC" -> ExecAloc(prog, m)
          [] op = "IGL" -> {Return(1, m)}
          [] op \in {"INC", "DEC"} -> ExecIncDec(prog, m, op)
          [] op = "LUI" -> {Continue(m)}
          [] op = "PRTS" -> ExecPrts(prog, ro_bytes, m)

-----------------------------------------------------------------------------
(* VirtualMachine: construction and the inputs of the model *)

DEFAULT_HEAP_STARTING_SIZE == 64

StartEvent == [type |-> "Start"]
GracefulStop(code) == [type |-> "GracefulStop", code |-> code]
Crash(code) == [type |-> "Crash", code |-> code]

\* VirtualMachine::new: the fields the model keeps
NewRegisters == [i \in 0..31 |-> 0]
NewHeap == <<0, DEFAULT_HEAP_STARTING_SIZE>>

\* VirtualMachine::get_test_vm
TestRegisters == [NewRegisters EXCEPT ![0] = 5, ![1] = 10]

\* VirtualMachine::prepend_header
prepend_header(b) ==
    PIE_HEADER_PREFIX \o Zeros(PIE_HEADER_LENGTH + 4 - Len(PIE_HEADER_PREFIX)) \o b

RECURSIVE Flatten(_)
Flatten(ss) == IF ss = <<>> THEN <<>> ELSE Head(ss) \o Flatten(Tail(ss))

\* the 4-byte instructions the drawn programs are made of
VmInstrs ==
    { <<0, 0, 1, 244>>, <<0, 1, 0, 72>>, <<0, 2, 128, 0>>,
      <<1, 0, 1, 2>>, <<2, 0, 1, 2>>, <<3, 0, 1, 2>>, <<1, 0, 0, 0>>,
      <<4, 1, 0, 2>>, <<4, 0, 2, 2>>, <<4, 2, 1, 3>>,
      <<5, 0, 0, 0>>,
      <<6, 1, 0, 0>>, <<7, 0, 0, 0>>, <<8, 0, 0, 0>>,
      <<9, 0, 1, 0>>, <<10, 0, 1, 0>>, <<11, 0, 1, 0>>, <<12, 0, 1, 0>>,
      <<13, 0, 1, 0>>, <<14, 0, 1, 0>>,
      <<15, 1, 0, 0>>, <<16, 1, 0, 0>>,
      <<17, 0, 0, 0>>, <<18, 0, 0, 0>>, <<19, 0, 0, 0>>,
      <<20, 0, 0, 0>>, <<21, 0, 0, 0>>,
      <<200, 0, 0, 0>>, <<18, 32, 0, 0>> }

\* bytes cut from the end of the code of a drawn program
MaxTruncate == 3

CodeSeqs == UNION {[1..k -> VmInstrs] : k \in 0..MaxCode}

\* the program add_bytes leaves: the header, then the code less its last k bytes
Truncated(code, k) == prepend_header(SubSeq(code, 1, Len(code) - k))

\* programs whose header run rejects or cannot read
BadHeaderPrograms ==
    { <<>>, <<69, 80, 73>>, <<69, 80, 73, 70>>,
      <<0, 0, 0, 0>> \o Zeros(PIE_HEADER_LENGTH) \o <<5, 0, 0, 0>>,
      <<69, 80, 73, 70>> \o Zeros(PIE_HEADER_LENGTH) \o <<18, 0, 0, 0>>,
      PIE_HEADER_PREFIX,
      PIE_HEADER_PREFIX \o Zeros(PIE_HEADER_LENGTH - 3) }

\* an image whose bytes 64..68 give the length of the read-only bytes that
\* stand between the header and the code
ImageWithReadOnly(ro_bytes, code) ==
    PIE_HEADER_PREFIX \o Zeros(PIE_HEADER_LENGTH - Len(PIE_HEADER_PREFIX))
    \o <<Len(ro_bytes), 0, 0, 0>> \o ro_bytes \o code

\* "Hi" and a NUL as read-only data, before PRTS 0 and HLT, or before HLT
ReadOnlyImages ==
    { ImageWithReadOnly(<<72, 105, 0>>, <<21, 0, 0, 0, 5, 0, 0, 0>>),
      ImageWithReadOnly(<<72, 105, 0>>, <<5, 0, 0, 0>>) }

VmProgram(prog) ==
    \/ prog \in BadHeaderPrograms
    \/ prog \in ReadOnlyImages
    \/ \E cs \in CodeSeqs : \E k \in 0..MaxTruncate :
          k <= Len(Flatten(cs)) /\ prog = Truncated(Flatten(cs), k)

\* Assembler::new
AsmNew ==
    /\ symbols = <<>>
    /\ ro = <<>>
    /\ sections = <<>>
    /\ current_section = None
    /\ current_instruction = 0
    /\ errors = <<>>
    /\ phase = "First"

AsmIdle ==
    /\ AsmNew
    /\ instructions = <<>>
    /\ actl = "idle"
    /\ source_parses = FALSE
    /\ leftover = <<>>
    /\ body = <<>>
    /\ result = None

NoInstruction ==
    [opcode |-> None, label |-> None, directive |-> None,
     operand_one |-> None, operand_two |-> None, operand_three |-> None]

\* instr_bytes records one call of to_bytes: whether it was made, whether
\* it ended the process, and the bytes it returned
NotCalled == [called |-> FALSE, exited |-> FALSE, bytes |-> <<>>]

\* sym_call records one call on the SymbolTable: the method, its arguments
\* and, for set_symbol_offset, what it returned
NoCall == [op |-> "none", name |-> "", offset |-> None, returned |-> FALSE]

BytesIdle ==
    /\ instr = NoInstruction
    /\ instr_symbols = <<>>
    /\ instr_bytes = NotCalled

\* a VirtualMachine as new() or get_test_vm() builds it, before its program
VmNew ==
    /\ pc = 0
    /\ remainder = 0
    /\ equal_flag = FALSE
    /\ heap = NewHeap
    /\ ro_data = <<>>
    /\ events = <<>>
    /\ is_done = None
    /\ steps = 0

Init ==
    /\ VmNew
    /\ registers \in {NewRegisters, TestRegisters}
    /\ VmProgram(program)
    /\ ctl = "new"
    /\ AsmIdle
    /\ BytesIdle
    /\ sym_call = NoCall
    /\ command_buffer = <<>>
    /\ run_results = <<>>

-----------------------------------------------------------------------------
(* VirtualMachine::run *)

Machine ==
    [pc |-> pc, registers |-> registers, remainder |-> remainder,
     equal_flag |-> equal_flag, heap |-> heap]

\* lines 109-113
Run_Start ==
    /\ ctl = "new"
    /\ events' = Append(events, StartEvent)
    /\ ctl' = "started"
    /\ UNCHANGED <<program, pc, registers, remainder, equal_flag, heap,
                   ro_data, is_done, steps, asmVars, bytesVars, symVars, replVars, runVars>>

verify_header_three_bytes(prog) ==
    IF Len(prog) < 4 THEN "panic"
    ELSE IF SubSeq(prog, 1, 3) # SubSeq(PIE_HEADER_PREFIX, 1, 3) THEN "false"
    ELSE "true"

\* verify_header: the slice program[0..4] panics on a shorter program
verify_header(prog) ==
    IF Len(prog) < 4 THEN "panic"
    ELSE IF SubSeq(prog, 1, 4) # PIE_HEADER_PREFIX THEN "false"
    ELSE "true"

\* lines 115-123
Run_VerifyHeader ==
    /\ ctl = "started"
    /\ ctl' = CASE verify_header(program) = "panic" -> "aborted"
                [] verify_header(program) = "false" -> "returned"
                [] verify_header(program) = "true" -> "verified"
    /\ events' = IF verify_header(program) = "false"
                 THEN Append(events, Crash(1)) ELSE events
    /\ run_results' = IF verify_header(program) = "false"
                      THEN Append(run_results, events') ELSE run_results
    /\ UNCHANGED <<program, pc, registers, remainder, equal_flag, heap,
                   ro_data, is_done, steps, asmVars, bytesVars, symVars,
                   replVars>>

\* get_starting_offset: the i32 of bytes 64..68, as usize; None is a panic
get_starting_offset(prog) ==
    IF Len(prog) < 68 THEN None
    ELSE Some(FromLeBytes(prog[65], prog[66], prog[67], prog[68]))

\* line 125: the values pc can take; None is a panic
StartingPc(prog) ==
    IF get_starting_offset(prog) = None THEN {None}
    ELSE LET offset == get_starting_offset(prog)[1]
         IN  IF UAddOverflows(68, offset) THEN {None, Some(68 + offset)}
             ELSE {Some(68 + offset)}

Run_SetPc ==
    /\ ctl = "verified"
    /\ \E start \in StartingPc(program) :
          IF start = None
          THEN ctl' = "aborted" /\ UNCHANGED pc
          ELSE ctl' = "loop" /\ pc' = start[1]
    /\ UNCHANGED <<program, registers, remainder, equal_flag, heap, ro_data,
                   events, is_done, steps, asmVars, bytesVars, symVars, replVars, runVars>>

\* lines 127-129: one turn of the loop
Run_Execute ==
    /\ ctl = "loop"
    /\ steps < MaxSteps
    /\ \E o \in execute_instruction(program, ro_data, Machine) :
          IF o.panic
          THEN /\ ctl' = "aborted"
               /\ UNCHANGED <<pc, registers, remainder, equal_flag, heap,
                              is_done>>
          ELSE /\ pc' = o.m.pc
               /\ registers' = o.m.registers
               /\ remainder' = o.m.remainder
               /\ equal_flag' = o.m.equal_flag
               /\ heap' = o.m.heap
               /\ is_done' = o.ret
               /\ ctl' = IF o.ret = None THEN "loop" ELSE "stopping"
    /\ steps' = steps + 1
    /\ UNCHANGED <<program, ro_data, events, asmVars, bytesVars, symVars, replVars, runVars>>

\* lines 130-137
Run_Stop ==
    /\ ctl = "stopping"
    /\ events' = Append(events, GracefulStop(is_done[1]))
    /\ run_results' = Append(run_results, events')
    /\ ctl' = "returned"
    /\ UNCHANGED <<program, pc, registers, remainder, equal_flag, heap,
                   ro_data, is_done, steps, asmVars, bytesVars, symVars,
                   replVars>>

Next ==
    \/ Run_Start
    \/ Run_VerifyHeader
    \/ Run_SetPc
    \/ Run_Execute
    \/ Run_Stop

Spec == Init /\ [][Next]_vars

-----------------------------------------------------------------------------
(* Claims about VirtualMachine::run, checked under Spec *)

Magic == <<69, 80, 73, 69>>
HeaderMatches == Len(program) >= 4 /\ SubSeq(program, 1, 4) = Magic
HeaderDiffers == Len(program) >= 4 /\ SubSeq(program, 1, 4) # Magic
MachineUnchanged == UNCHANGED <<registers, pc, equal_flag, remainder, heap>>

C1_Events ==
    /\ ctl = "new" => events = <<>>
    /\ ctl \in {"started", "verified", "loop", "stopping", "aborted"}
          => events = <<StartEvent>>
    /\ ctl = "returned" =>
          /\ Len(events) = 2
          /\ events[1] = StartEvent
          /\ HeaderDiffers => events[2] = Crash(1)
          /\ HeaderMatches =>
                is_done # None /\ events[2] = GracefulStop(is_done[1])
    /\ \A i \in 1..Len(events) : events[i].type = "Crash" => HeaderDiffers

C1_Step ==
    /\ HeaderDiffers => MachineUnchanged /\ steps' = steps
    /\ events' # events =>
          /\ Len(events') = Len(events) + 1
          /\ SubSeq(events', 1, Len(events)) = events
    /\ (ctl # "returned" /\ ctl' = "returned" /\ HeaderMatches) =>
          ctl = "stopping" /\ is_done # None

\* C1: run appends Start first; on a header that differs from the magic it
\* appends Crash{code: 1} and returns with registers, pc, equal_flag,
\* remainder and heap untouched and no instruction executed; otherwise it
\* executes until an instruction returns a code and then appends exactly
\* one GracefulStop{code} as the last event.  Crash is appended only for a
\* header mismatch.
C1_EventProtocol == []C1_Events /\ [][C1_Step]_vars

\* a run of a program with a valid header that executed instructions and
\* returned after its GracefulStop
C1_Witness ==
    /\ ctl = "returned"
    /\ HeaderMatches
    /\ steps >= 2
    /\ events = <<StartEvent, GracefulStop(1)>>

\* C2: run never aborts: whatever the program bytes, it returns normally
\* with Crash or GracefulStop as the last event of the log.
C2_NeverAborts ==
    /\ ctl # "aborted"
    /\ ctl = "returned" =>
          events[Len(events)].type \in {"Crash", "GracefulStop"}

FourByteOpcodes ==
    {"LOAD", "LUI", "ADD", "SUB", "MUL", "DIV", "EQ", "NEQ", "GT", "LT",
     "GTQ", "LTQ", "INC", "DEC", "ALOC", "PRTS"}

\* the step executes an instruction, fetched at pc, that ran to its end
ExecutesAt(op) ==
    /\ ctl = "loop"
    /\ ctl' # "aborted"
    /\ steps' = steps + 1
    /\ pc >= 0
    /\ pc < Len(program)
    /\ OpcodeFrom(program[pc + 1]) = op

\* C3: every non-jump, non-terminal opcode advances pc by exactly 4 in one
\* execute step.
C3_PcAdvancesByFour ==
    [][\A op \in FourByteOpcodes : ExecutesAt(op) => pc' = pc + 4]_vars

-----------------------------------------------------------------------------
(* Tokens, instructions and the symbol table of the assembler *)

Op(code) == [kind |-> "Op", code |-> code]
Register(n) == [kind |-> "Register", reg_num |-> n]
IntegerOperand(v) == [kind |-> "IntegerOperand", value |-> v]
LabelDeclaration(name) == [kind |-> "LabelDeclaration", name |-> name]
LabelUsage(name) == [kind |-> "LabelUsage", name |-> name]
Directive(name) == [kind |-> "Directive", name |-> name]
\* the text of a string literal is kept as its bytes
IrString(bytes) == [kind |-> "IrString", text |-> bytes]

\* an AssemblerInstruction with an opcode, as instruction_combined builds it
Ins(code, o1, o2, o3) ==
    [opcode |-> Some(Op(code)), label |-> None, directive |-> None,
     operand_one |-> o1, operand_two |-> o2, operand_three |-> o3]
\* the same with a label declaration in front
Labelled(name, i) == [i EXCEPT !.label = Some(LabelDeclaration(name))]
\* an AssemblerInstruction with a directive, as directive_combined builds it
Dir(name, o1) ==
    [opcode |-> None, label |-> None, directive |-> Some(Directive(name)),
     operand_one |-> o1, operand_two |-> None, operand_three |-> None]

is_label(i) == i.label # None
is_opcode(i) == i.opcode # None
is_directive(i) == i.directive # None

Symbol(name, offset) ==
    [name |-> name, offset |-> Some(offset), symbol_type |-> "Label"]

\* Symbol::new: a symbol without an offset
Symbol_new(name) == [name |-> name, offset |-> None, symbol_type |-> "Label"]

\* SymbolTable::add_symbol
add_symbol(table, s) == Append(table, s)

\* SymbolTable::has_symbol
has_symbol(table, s) == \E k \in 1..Len(table) : table[k].name = s

set_symbol_offset_first_symbol(table, s, offset) ==
    LET hits == {k \in 1..Len(table) : table[k].name = s}
    IN  IF hits = {} THEN [table |-> table, ret |-> FALSE]
        ELSE [table |-> [table EXCEPT ![1].offset = Some(offset)],
              ret |-> TRUE]

\* SymbolTable::set_symbol_offset: the table it leaves and what it returns;
\* the first symbol of that name gets the offset
set_symbol_offset(table, s, offset) ==
    LET hits == {k \in 1..Len(table) : table[k].name = s}
    IN  IF hits = {} THEN [table |-> table, ret |-> FALSE]
        ELSE LET first == CHOOSE k \in hits : \A j \in hits : k <= j
             IN  [table |-> [table EXCEPT ![first].offset = Some(offset)],
                  ret |-> TRUE]

\* SymbolTable::symbol_value: the offset of the first symbol of that name
RECURSIVE symbol_value(_, _)
symbol_value(table, s) ==
    IF table = <<>> THEN None
    ELSE IF Head(table).name = s THEN Head(table).offset
    ELSE symbol_value(Tail(table), s)

-----------------------------------------------------------------------------
(* AssemblerInstruction::to_bytes.  None stands for process::exit(1). *)

extract_operand_low_first(t, table) ==
    CASE t.kind = "Register" -> Some(<<t.reg_num>>)
      [] t.kind = "IntegerOperand" ->
            Some(<<ByteOf(t.value, 0), ByteOf(t.value, 1)>>)
      [] t.kind = "LabelUsage" ->
            IF symbol_value(table, t.name) # None
            THEN Some(<<ByteOf(symbol_value(table, t.name)[1], 0),
                        ByteOf(symbol_value(table, t.name)[1], 1)>>)
            ELSE None
      [] OTHER -> None

\* the bytes extract_operand pushes for one operand token
extract_operand(t, table) ==
    CASE t.kind = "Register" -> Some(<<t.reg_num>>)
      [] t.kind = "IntegerOperand" ->
            Some(<<ByteOf(t.value, 1), ByteOf(t.value, 0)>>)
      [] t.kind = "LabelUsage" ->
            IF symbol_value(table, t.name) # None
            THEN Some(<<ByteOf(symbol_value(table, t.name)[1], 1),
                        ByteOf(symbol_value(table, t.name)[1], 0)>>)
            ELSE None
      [] OTHER -> None

\* the operands of an instruction that are present, in order
Operands(i) == i.operand_one \o i.operand_two \o i.operand_three

RECURSIVE OperandBytes(_, _)
OperandBytes(tokens, table) ==
    IF tokens = <<>> THEN Some(<<>>)
    ELSE LET first == extract_operand(Head(tokens), table)
             rest == OperandBytes(Tail(tokens), table)
         IN  IF first = None \/ rest = None THEN None
             ELSE Some(first[1] \o rest[1])

\* the while loop of lines 60-62
PadToFour(bytes) ==
    IF Len(bytes) < 4 THEN bytes \o Zeros(4 - Len(bytes)) ELSE bytes

to_bytes(i, table) ==
    IF i.opcode = None \/ i.opcode[1].kind # "Op" THEN None
    ELSE IF OperandBytes(Operands(i), table) = None THEN None
    ELSE Some(PadToFour(<<OpcodeByte(i.opcode[1].code)>>
                        \o OperandBytes(Operands(i), table)[1]))

-----------------------------------------------------------------------------
(* to_bytes applied to single instructions: SpecBytes *)

\* what an operand slot of a drawn instruction holds
OperandChoices ==
    { None,
      Some(Register(0)), Some(Register(31)),
      Some(IntegerOperand(0)), Some(IntegerOperand(500)),
      Some(IntegerOperand(65535)), Some(IntegerOperand(65536)),
      Some(IntegerOperand(-1)),
      Some(LabelUsage("test")), Some(LabelUsage("missing")),
      Some(IrString(<<72, 105>>)) }

DrawnOpcodes == {OpcodeTable[k] : k \in 1..Len(OpcodeTable)}

DrawnInstructions ==
    {Ins(c, o1, o2, o3) : c \in DrawnOpcodes, o1 \in OperandChoices,
                          o2 \in OperandChoices, o3 \in OperandChoices}
    \cup {Dir("asciiz", o1) : o1 \in OperandChoices}

DrawnTables ==
    { <<>>,
      <<Symbol("test", 12)>>,
      <<Symbol("other", 4), Symbol("test", 260), Symbol("test", 8)>> }

InitBytes ==
    /\ VmNew
    /\ registers = NewRegisters
    /\ program = <<>>
    /\ ctl = "unused"
    /\ AsmIdle
    /\ instr \in DrawnInstructions
    /\ instr_symbols \in DrawnTables
    /\ sym_call = NoCall
    /\ command_buffer = <<>>
    /\ run_results = <<>>
    /\ instr_bytes = NotCalled

ToBytes ==
    /\ ~instr_bytes.called
    /\ instr_bytes' =
          IF to_bytes(instr, instr_symbols) = None
          THEN [called |-> TRUE, exited |-> TRUE, bytes |-> <<>>]
          ELSE [called |-> TRUE, exited |-> FALSE,
                bytes |-> to_bytes(instr, instr_symbols)[1]]
    /\ UNCHANGED <<instr, instr_symbols, vmVars, asmVars, symVars, replVars, runVars>>

NextBytes == ToBytes

SpecBytes == InitBytes /\ [][NextBytes]_vars

PresentOperands == instr.operand_one \o instr.operand_two \o instr.operand_three

\* every operand is a register, an integer or a label the table resolves
OperandsEncodable ==
    \A k \in 1..Len(PresentOperands) :
        \/ PresentOperands[k].kind \in {"Register", "IntegerOperand"}
        \/ /\ PresentOperands[k].kind = "LabelUsage"
           /\ \E j \in 1..Len(instr_symbols) :
                 instr_symbols[j].name = PresentOperands[k].name

\* C9: to_bytes returns exactly 4 bytes for every instruction that has an
\* opcode, whatever combination of zero to three register, integer and
\* resolvable label operands it carries; never more than 4.
C9_ExactlyFourBytes ==
    (instr_bytes.called /\ instr.opcode # None /\ OperandsEncodable) =>
        ~instr_bytes.exited /\ Len(instr_bytes.bytes) = 4

\* the numbering of the mnemonics
OpcodeNumber ==
    [LOAD |-> 0, ADD |-> 1, SUB |-> 2, MUL |-> 3, DIV |-> 4, HLT |-> 5,
     JMP |-> 6, JMPF |-> 7, JMPB |-> 8, EQ |-> 9, NEQ |-> 10, GT |-> 11,
     LT |-> 12, GTQ |-> 13, LTQ |-> 14, JEQ |-> 15, JNEQ |-> 16,
     ALOC |-> 17, INC |-> 18, DEC |-> 19, LUI |-> 20, PRTS |-> 21,
     IGL |-> 22]

\* high byte first, of v mod 2^16
BigEndian16(v) == <<(v % 65536) \div 256, (v % 65536) % 256>>

RECURSIVE EncodedOperands(_)
EncodedOperands(tokens) ==
    IF tokens = <<>> THEN <<>>
    ELSE (IF Head(tokens).kind = "Register" THEN <<Head(tokens).reg_num>>
          ELSE BigEndian16(Head(tokens).value))
         \o EncodedOperands(Tail(tokens))

OnlyRegistersAndIntegers ==
    \A k \in 1..Len(PresentOperands) :
        PresentOperands[k].kind \in {"Register", "IntegerOperand"}

\* C10: to_bytes writes the opcode as its numeric byte, then each
\* Register(n) as the byte n and each IntegerOperand(v) as the two bytes of
\* v mod 2^16, high byte first, in operand order; LOAD $0 #500 is
\* 00 00 01 F4.
C10_Encoding ==
    /\ (instr_bytes.called /\ instr.opcode # None /\ OnlyRegistersAndIntegers) =>
          /\ ~instr_bytes.exited
          /\ LET want == <<OpcodeNumber[instr.opcode[1].code]>>
                         \o EncodedOperands(PresentOperands)
             IN  /\ Len(instr_bytes.bytes) >= Len(want)
                 /\ SubSeq(instr_bytes.bytes, 1, Len(want)) = want
    /\ (instr_bytes.called
        /\ instr = Ins("LOAD", Some(Register(0)), Some(IntegerOperand(500)), None))
          => instr_bytes.bytes = <<0, 0, 1, 244>>

\* LOAD $0 #500 has been encoded
C10_Witness ==
    /\ instr_bytes.called
    /\ instr = Ins("LOAD", Some(Register(0)), Some(IntegerOperand(500)), None)
    /\ instr_bytes.bytes = <<0, 0, 1, 244>>

-----------------------------------------------------------------------------
(* Assembler: the first phase *)

MAX_I16 == 32768
MIN_I16 == -32768

is_integer_needs_splitting(i) ==
    IF i.opcode = None THEN FALSE
    ELSE IF i.opcode[1].kind # "Op" THEN FALSE
    ELSE IF i.opcode[1].code # "LOAD" THEN FALSE
    ELSE IF i.operand_two = None THEN TRUE
    ELSE IF i.operand_two[1].kind # "IntegerOperand" THEN FALSE
    ELSE i.operand_two[1].value > MAX_I16 \/ i.operand_two[1].value < MIN_I16

\* `value as i16`
AsI16(v) == IF v % 65536 >= 32768 THEN (v % 65536) - 65536 ELSE v % 65536

get_integer_value(i) ==
    IF i.operand_two = None THEN None
    ELSE IF i.operand_two[1].kind # "IntegerOperand" THEN None
    ELSE Some(AsI16(i.operand_two[1].value))

\* lines 121-142: value.unwrap() panics on a LOAD without an integer
SplitPanics(p) ==
    \E k \in 1..Len(p) :
        is_integer_needs_splitting(p[k]) /\ get_integer_value(p[k]) = None

\* lines 125-129: wtr is the little-endian i16; the LOAD keeps wtr[1]
RewrittenLoad(i) ==
    [i EXCEPT !.operand_two =
        Some(IntegerOperand(ByteOf(get_integer_value(i)[1], 1)))]

\* lines 130-139: the LUI that goes with it carries wtr[0]
NewLui(i) ==
    [opcode |-> Some(Op("LUI")), label |-> None, directive |-> None,
     operand_one |-> i.operand_one,
     operand_two |-> Some(IntegerOperand(ByteOf(get_integer_value(i)[1], 0))),
     operand_three |-> None]

RewriteLoads(p) ==
    [k \in 1..Len(p) |->
        IF is_integer_needs_splitting(p[k]) THEN RewrittenLoad(p[k]) ELSE p[k]]

\* inserts_to_do: (idx + 1, new_instruction) for each split LOAD, idx from 0
RECURSIVE InsertsToDo(_, _)
InsertsToDo(p, k) ==
    IF k > Len(p) THEN <<>>
    ELSE (IF is_integer_needs_splitting(p[k]) THEN <<<<k, NewLui(p[k])>>>>
          ELSE <<>>)
         \o InsertsToDo(p, k + 1)

\* Vec::insert(at, x), at counted from 0
InsertAt(seq, at, x) ==
    SubSeq(seq, 1, at) \o <<x>> \o SubSeq(seq, at + 1, Len(seq))

\* lines 144-146: the inserts are done one after the other
RECURSIVE ApplyInserts(_, _)
ApplyInserts(seq, inserts) ==
    IF inserts = <<>> THEN seq
    ELSE ApplyInserts(InsertAt(seq, Head(inserts)[1], Head(inserts)[2]),
                      Tail(inserts))

\* the program after lines 119-146
SplitLoads(p) == ApplyInserts(RewriteLoads(p), InsertsToDo(p, 1))

NoSegmentDeclarationFound(n) ==
    [kind |-> "NoSegmentDeclarationFound", instruction |-> n]
InsufficientSections == [kind |-> "InsufficientSections", instruction |-> 0]
ParseError == [kind |-> "ParseError", instruction |-> 0]

\* the walk, were it to stop at the first error
RECURSIVE FirstPhaseWalk_stops_at_first_error(_, _, _, _)
FirstPhaseWalk_stops_at_first_error(p, section, count, errs) ==
    IF p = <<>> \/ errs # <<>>
    THEN [errors |-> errs, current_instruction |-> count]
    ELSE IF is_label(Head(p))
    THEN FirstPhaseWalk_stops_at_first_error(
             Tail(p), section, count + 1,
             IF section # None THEN errs
             ELSE Append(errs, NoSegmentDeclarationFound(count)))
    ELSE FirstPhaseWalk_stops_at_first_error(Tail(p), section, count, errs)

\* lines 149-180: the walk over the instructions.  process_label_declaration
\* and process_directive have empty bodies, so the walk changes only the
\* error list and current_instruction.
RECURSIVE FirstPhaseWalk(_, _, _, _)
FirstPhaseWalk(p, section, count, errs) ==
    IF p = <<>> THEN [errors |-> errs, current_instruction |-> count]
    ELSE IF is_label(Head(p))
    THEN FirstPhaseWalk(Tail(p), section, count + 1,
                        IF section # None THEN errs
                        ELSE Append(errs, NoSegmentDeclarationFound(count)))
    ELSE FirstPhaseWalk(Tail(p), section, count, errs)

-----------------------------------------------------------------------------
(* Assembler: the second phase and the header *)

\* process_second_phase: the code bytes; None when to_bytes ends the process
RECURSIVE process_second_phase(_, _)
process_second_phase(p, table) ==
    IF p = <<>> THEN Some(<<>>)
    ELSE LET rest == process_second_phase(Tail(p), table)
         IN  IF is_directive(Head(p)) \/ ~is_opcode(Head(p)) THEN rest
             ELSE IF to_bytes(Head(p), table) = None \/ rest = None THEN None
             ELSE Some(to_bytes(Head(p), table)[1] \o rest[1])

\* the instructions the second phase counts in current_instruction
SecondPhaseCount(p) == Len(SelectSeq(p, LAMBDA i : ~is_directive(i)))

write_pie_header_without_prefix == Zeros(PIE_HEADER_LENGTH + 1)

\* write_pie_header: the prefix, then zeros while len <= PIE_HEADER_LENGTH
write_pie_header ==
    PIE_HEADER_PREFIX \o Zeros(PIE_HEADER_LENGTH + 1 - Len(PIE_HEADER_PREFIX))

Ok(image) == [ok |-> TRUE, image |-> image, errors |-> <<>>]
Err(errs) == [ok |-> FALSE, image |-> <<>>, errors |-> errs]

-----------------------------------------------------------------------------
(* Assembler::assemble *)

\* line 68: the source does not parse
Assemble_ParseError ==
    /\ actl = "called"
    /\ ~source_parses
    /\ result' = Some(Err(<<ParseError>>))
    /\ actl' = "returned"
    /\ UNCHANGED <<instructions, symbols, ro, sections, current_section,
                   current_instruction, errors, phase, source_parses,
                   leftover, body, vmVars, bytesVars, symVars, replVars, runVars>>

\* line 70: process_first_phase on the parsed program
Assemble_FirstPhase ==
    /\ actl = "called"
    /\ source_parses
    /\ IF SplitPanics(instructions)
       THEN /\ actl' = "aborted"
            /\ UNCHANGED <<instructions, errors, current_instruction, phase>>
       ELSE LET walk == FirstPhaseWalk(SplitLoads(instructions),
                                       current_section, current_instruction,
                                       errors)
            IN  /\ instructions' = SplitLoads(instructions)
                /\ errors' = walk.errors
                /\ current_instruction' = walk.current_instruction
                /\ phase' = "Second"
                /\ actl' = "first_phase_done"
    /\ UNCHANGED <<symbols, ro, sections, current_section, source_parses,
                   leftover, body, result, vmVars, bytesVars, symVars, replVars, runVars>>

\* the checks, were the section count tested with > instead of !=
Assemble_Checks_more_than_two ==
    /\ actl = "first_phase_done"
    /\ IF errors # <<>>
       THEN /\ result' = Some(Err(errors))
            /\ actl' = "returned"
            /\ UNCHANGED errors
       ELSE IF Len(sections) > 2
       THEN /\ errors' = Append(errors, InsufficientSections)
            /\ result' = Some(Err(errors'))
            /\ actl' = "returned"
       ELSE /\ actl' = "second_phase"
            /\ UNCHANGED <<errors, result>>
    /\ UNCHANGED <<instructions, symbols, ro, sections, current_section,
                   current_instruction, phase, source_parses, leftover, body,
                   vmVars, bytesVars, symVars, replVars, runVars>>

\* lines 72-87: the errors of the first phase, then the section count
Assemble_Checks ==
    /\ actl = "first_phase_done"
    /\ IF errors # <<>>
       THEN /\ result' = Some(Err(errors))
            /\ actl' = "returned"
            /\ UNCHANGED errors
       ELSE IF Len(sections) # 2
       THEN /\ errors' = Append(errors, InsufficientSections)
            /\ result' = Some(Err(errors'))
            /\ actl' = "returned"
       ELSE /\ actl' = "second_phase"
            /\ UNCHANGED <<errors, result>>
    /\ UNCHANGED <<instructions, symbols, ro, sections, current_section,
                   current_instruction, phase, source_parses, leftover, body,
                   vmVars, bytesVars, symVars, replVars, runVars>>

\* line 89: process_second_phase
Assemble_SecondPhase ==
    /\ actl = "second_phase"
    /\ IF process_second_phase(instructions, symbols) = None
       THEN actl' = "aborted" /\ UNCHANGED <<body, current_instruction>>
       ELSE /\ body' = process_second_phase(instructions, symbols)[1]
            /\ current_instruction' = SecondPhaseCount(instructions)
            /\ actl' = "body_done"
    /\ UNCHANGED <<instructions, symbols, ro, sections, current_section,
                   errors, phase, source_parses, leftover, result, vmVars,
                   bytesVars, symVars, replVars, runVars>>

\* lines 90-95: the header, then the body
Assemble_WriteImage ==
    /\ actl = "body_done"
    /\ result' = Some(Ok(write_pie_header \o body))
    /\ actl' = "returned"
    /\ UNCHANGED <<instructions, symbols, ro, sections, current_section,
                   current_instruction, errors, phase, source_parses,
                   leftover, body, vmVars, bytesVars, symVars, replVars, runVars>>

\* main.rs lines 39-43: the image goes to a new VirtualMachine, which runs
Main_AddBytes ==
    /\ actl = "returned"
    /\ result # None
    /\ result[1].ok
    /\ ctl = "unloaded"
    /\ program' = program \o result[1].image
    /\ ctl' = "new"
    /\ UNCHANGED <<pc, registers, remainder, equal_flag, heap, ro_data,
                   events, is_done, steps, asmVars, bytesVars, symVars, replVars, runVars>>

-----------------------------------------------------------------------------
(* The programs the assembler is given *)

\* instructions of a program text handed to the assembler
MaxProgram == 3

Hello == <<72, 101, 108, 108, 111>>

SevenInstructions ==
    << Ins("LOAD", Some(Register(0)), Some(IntegerOperand(100)), None),
       Ins("LOAD", Some(Register(1)), Some(IntegerOperand(1)), None),
       Ins("LOAD", Some(Register(2)), Some(IntegerOperand(0)), None),
       Labelled("test", Ins("INC", Some(Register(0)), None, None)),
       Ins("NEQ", Some(Register(0)), Some(Register(2)), None),
       Ins("JEQ", Some(LabelUsage("test")), None, None),
       Ins("HLT", None, None, None) >>

\* tests::assemble_program
AssembleProgramTest == <<Dir("data", None), Dir("code", None)>> \o SevenInstructions

\* tests::test_code_start_offset_written
CodeStartOffsetTest ==
    << Dir("data", None),
       Labelled("test1", Dir("asciiz", Some(IrString(Hello)))),
       Dir("code", None) >> \o SevenInstructions

\* tests::test_ro_data_i32 followed by one instruction
IntegerDataProgram ==
    << Dir("data", None),
       Labelled("num", Dir("integer", Some(IntegerOperand(300)))),
       Dir("code", None),
       Ins("HLT", None, None, None) >>

\* tests::test_bad_ro_data
BadRoDataTest ==
    << Dir("code", None),
       Labelled("test", Dir("asciiz", Some(IrString(<<84>>)))),
       Dir("wrong", None) >>

\* one LOAD $0 #imm for the immediates at the edges of 16 bits, and a LOAD
\* whose second operand is absent
LoadImmediates == {-32769, -32768, 32767, 32768, 32769, 65535, 65536}
LoadPrograms ==
    {<<Ins("LOAD", Some(Register(0)), Some(IntegerOperand(v)), None)>> :
        v \in LoadImmediates}
    \cup {<<Ins("LOAD", Some(Register(0)), None, None)>>}

AssemblerInstructions ==
    { Dir("data", None), Dir("code", None), Dir("wrong", None),
      Labelled("hi", Dir("asciiz", Some(IrString(<<72, 105>>)))),
      Ins("LOAD", Some(Register(0)), Some(IntegerOperand(100)), None),
      Ins("LOAD", Some(Register(1)), Some(IntegerOperand(70000)), None),
      Labelled("test", Ins("INC", Some(Register(0)), None, None)),
      Ins("ADD", Some(Register(0)), Some(Register(1)), Some(Register(2))),
      Ins("JEQ", Some(LabelUsage("test")), None, None),
      Ins("HLT", None, None, None) }

Programs ==
    {AssembleProgramTest, CodeStartOffsetTest, IntegerDataProgram,
     BadRoDataTest}
    \cup LoadPrograms
    \cup UNION {[1..k -> AssemblerInstructions] : k \in 1..MaxProgram}

-----------------------------------------------------------------------------
(* Assembler::assemble on a new Assembler: SpecAsm *)

\* the text program() leaves unparsed after the last instruction it accepts,
\* as character codes: nothing, blanks and a newline, "#!", a newline and "?"
Leftovers == { <<>>, <<32, 10>>, <<35, 33>>, <<10, 63>> }

InitAsm ==
    /\ VmNew
    /\ registers = NewRegisters
    /\ program = <<>>
    /\ ctl = "unloaded"
    /\ BytesIdle
    /\ sym_call = NoCall
    /\ command_buffer = <<>>
    /\ run_results = <<>>
    /\ AsmNew
    /\ source_parses \in BOOLEAN
    /\ leftover \in Leftovers
    /\ instructions \in (IF source_parses THEN Programs ELSE {<<>>})
    /\ actl = "called"
    /\ body = <<>>
    /\ result = None

NextAsm ==
    \/ Assemble_ParseError
    \/ Assemble_FirstPhase
    \/ Assemble_Checks

SpecAsm == InitAsm /\ [][NextAsm]_vars

-----------------------------------------------------------------------------
(* Lines 89-95 of assemble, from the state in which both checks of lines   *)
(* 72-87 have passed: the second phase and write_pie_header applied to the *)
(* program the first phase leaves and to a symbol table, and the image run *)
(* by a new VirtualMachine: SpecImage.  Under SpecAsm the check of line 82 *)
(* never passes, since nothing pushes to sections.                         *)

SymbolTables == {<<>>, <<Symbol("test", 12), Symbol("hi", 0)>>}

InitImage ==
    /\ VmNew
    /\ registers = NewRegisters
    /\ program = <<>>
    /\ ctl = "unloaded"
    /\ BytesIdle
    /\ sym_call = NoCall
    /\ command_buffer = <<>>
    /\ run_results = <<>>
    /\ ro = <<>>
    /\ sections = <<"Data", "Code">>
    /\ current_section = None
    /\ errors = <<>>
    /\ phase = "Second"
    /\ symbols \in SymbolTables
    /\ source_parses = TRUE
    /\ leftover \in Leftovers
    /\ instructions \in {SplitLoads(p) : p \in {q \in Programs : ~SplitPanics(q)}}
    /\ current_instruction = 0
    /\ actl = "second_phase"
    /\ body = <<>>
    /\ result = None

NextImage ==
    \/ Assemble_SecondPhase
    \/ Assemble_WriteImage
    \/ Main_AddBytes
    \/ Run_Start
    \/ Run_VerifyHeader
    \/ Run_SetPc
    \/ Run_Execute
    \/ Run_Stop

SpecImage == InitImage /\ [][NextImage]_vars

-----------------------------------------------------------------------------
(* Claims about assemble and the image *)

IsHeader(i, name) == i.directive # None /\ i.directive[1].name = name

HeaderCount(p, name) == Len(SelectSeq(p, LAMBDA i : IsHeader(i, name)))

\* one .data header first, one .code header after it, declarations only
\* before the .code header and opcodes only after it
WellFormedProgram(p) ==
    /\ p # <<>>
    /\ IsHeader(p[1], "data")
    /\ HeaderCount(p, "data") = 1
    /\ HeaderCount(p, "code") = 1
    /\ \A k \in 1..Len(p) : \A j \in 1..Len(p) :
          (IsHeader(p[j], "code") /\ k < j) => p[k].opcode = None
    /\ \A k \in 1..Len(p) : \A j \in 1..Len(p) :
          (IsHeader(p[j], "code") /\ k > j) => p[k].opcode # None

\* the read-only bytes the directives of a program declare, in order
RECURSIVE DeclaredReadOnly(_)
DeclaredReadOnly(p) ==
    IF p = <<>> THEN <<>>
    ELSE (IF IsHeader(Head(p), "asciiz") /\ Head(p).operand_one # None
             /\ Head(p).operand_one[1].kind = "IrString"
          THEN Head(p).operand_one[1].text \o <<0>>
          ELSE IF IsHeader(Head(p), "integer") /\ Head(p).operand_one # None
                  /\ Head(p).operand_one[1].kind = "IntegerOperand"
          THEN LET v == Head(p).operand_one[1].value
               IN  <<v % 256, (v \div 256) % 256, (v \div 65536) % 256,
                     (v \div 16777216) % 256>>
          ELSE <<>>)
         \o DeclaredReadOnly(Tail(p))

OpcodeCount(p) == Len(SelectSeq(p, LAMBDA i : i.opcode # None))

Assembled == result # None /\ result[1].ok
Image == result[1].image
Returned == actl = "returned" /\ source_parses

\* C4: the image of a program that assembles is 64 + 4 + (read-only bytes)
\* + 4 * (opcode-bearing instructions after phase 1) bytes long; the
\* 7-instruction program with an empty data section assembles to 96 bytes.
C4_ImageLength ==
    Returned =>
        /\ Assembled =>
              Len(Image) = 64 + 4 + Len(DeclaredReadOnly(instructions))
                           + 4 * OpcodeCount(instructions)
        /\ instructions = AssembleProgramTest =>
              (Assembled /\ Len(Image) = 96)

\* C5: every image starts with the magic 45 50 49 45 and has bytes 4
\* through 63 all zero.
C5_MagicAndPadding ==
    Assembled =>
        /\ Len(Image) >= 64
        /\ SubSeq(Image, 1, 4) = Magic
        /\ \A k \in 4..63 : Image[k + 1] = 0

\* the image of the program of tests::assemble_program has been built
C5_Witness ==
    /\ Assembled
    /\ instructions = AssembleProgramTest
    /\ body # <<>>
    /\ SubSeq(Image, 1, 4) = <<69, 80, 73, 69>>

\* C6: bytes 64..68 of an assembled image hold the code entry offset,
\* little-endian, which is the length of the read-only data; the program
\* whose data section holds only .asciiz 'Hello' assembles with byte 64 = 6.
C6_EntryOffset ==
    Returned =>
        /\ (Assembled /\ WellFormedProgram(instructions)) =>
              /\ Len(Image) >= 68
              /\ Image[65] + 256 * Image[66] + 65536 * Image[67]
                   + 16777216 * Image[68]
                 = Len(DeclaredReadOnly(instructions))
        /\ instructions = CodeStartOffsetTest =>
              (Assembled /\ Len(Image) >= 68 /\ Image[65] = 6)

\* C7: the read-only area built during assembly holds each .asciiz string
\* followed by 0x00 and each .integer as four little-endian bytes, in
\* program order, and is placed in the image from byte 68, before the code.
C7_ReadOnlyArea ==
    (Returned /\ WellFormedProgram(instructions)) =>
        /\ ro = DeclaredReadOnly(instructions)
        /\ Assembled =>
              /\ Len(Image) >= 68 + Len(ro)
              /\ SubSeq(Image, 69, 68 + Len(ro)) = ro

JumpCodes == {"JMP", "JMPF", "JMPB", "JEQ", "JNEQ"}
JumpFree(p) ==
    \A k \in 1..Len(p) : p[k].opcode # None => p[k].opcode[1].code \notin JumpCodes

-----------------------------------------------------------------------------
(* Claims about the first phase, checked under SpecAsm *)

AfterFirstPhase == actl = "first_phase_done"

IsSectionHeader(i) == i.directive # None /\ Operands(i) = <<>>
KnownHeader(i) == IsHeader(i, "data") \/ IsHeader(i, "code")

\* a .data or .code header stands before instruction k of p
HeaderBefore(p, k) == \E j \in 1..(k - 1) : KnownHeader(p[j])

\* the instructions before instruction k of p that occupy a code slot
CodeSlotsBefore(p, k) ==
    Cardinality({j \in 1..(k - 1) : p[j].opcode # None})

Labels(p) == {k \in 1..Len(p) : p[k].label # None}
LabelsInsideSections(p) == \A k \in Labels(p) : HeaderBefore(p, k)
LabelsUnique(p) ==
    \A k \in Labels(p) : \A j \in Labels(p) :
        p[k].label[1].name = p[j].label[1].name => k = j
UsagesDeclared(p) ==
    \A k \in 1..Len(p) : \A t \in {Operands(p[k])[n] : n \in 1..Len(Operands(p[k]))} :
        t.kind = "LabelUsage" =>
            \E j \in Labels(p) : p[j].label[1].name = t.name

ErrorKinds(errs) == {errs[k].kind : k \in 1..Len(errs)}

\* C11: after phase 1 of a program whose labels are all declared inside a
\* section, every declared label is in the symbol table, a label of an
\* instruction with offset 4 * (code-slot instructions before it), and
\* current_instruction is the number of code-slot instructions.
C11_LabelsInSymbolTable ==
    (AfterFirstPhase /\ LabelsInsideSections(instructions)
     /\ LabelsUnique(instructions)
     /\ HeaderCount(instructions, "data") = 1
     /\ HeaderCount(instructions, "code") = 1) =>
        /\ \A k \in Labels(instructions) :
              LET value == symbol_value(symbols, instructions[k].label[1].name)
              IN  /\ value # None
                  /\ instructions[k].opcode # None =>
                        value = Some(4 * CodeSlotsBefore(instructions, k))
        /\ current_instruction = OpcodeCount(instructions)

\* C13: assemble returns Ok for every parseable program with exactly one
\* .data and one .code header and no other header, whose labels are
\* declared after a header with unique names and whose label usages are
\* all declared.
C13_WellFormedAssembles ==
    (Returned
     /\ HeaderCount(instructions, "data") = 1
     /\ HeaderCount(instructions, "code") = 1
     /\ (\A k \in 1..Len(instructions) :
            IsSectionHeader(instructions[k]) => KnownHeader(instructions[k]))
     /\ LabelsInsideSections(instructions)
     /\ LabelsUnique(instructions)
     /\ UsagesDeclared(instructions)) =>
        Assembled

\* C15: a program with a section header named neither data nor code makes
\* phase 1 record UnknownSectionHeader and assemble return Err, wherever
\* the header stands.
C15_UnknownSectionHeader ==
    (Returned
     /\ \E k \in 1..Len(instructions) :
           IsSectionHeader(instructions[k]) /\ ~KnownHeader(instructions[k])) =>
        /\ ~Assembled
        /\ "UnknownSectionHeader" \in ErrorKinds(result[1].errors)

\* the labelled instructions no .data or .code header precedes
LabelsOutsideSections(p) == {k \in Labels(p) : ~HeaderBefore(p, k)}

\* C16: phase 1 records NoSegmentDeclarationFound once for each labelled
\* instruction that no .data or .code header precedes, and for no other.
C16_NoSegmentExactly ==
    AfterFirstPhase =>
        Len(SelectSeq(errors, LAMBDA e : e.kind = "NoSegmentDeclarationFound"))
            = Cardinality(LabelsOutsideSections(instructions))

\* C18: after phase 1 no two symbols of the table share a name, and a
\* program that declares a label name twice inside its sections has
\* SymbolAlreadyDeclared among its errors.
C18_NoDuplicateSymbols ==
    AfterFirstPhase =>
        /\ \A k \in 1..Len(symbols) : \A j \in 1..Len(symbols) :
              symbols[k].name = symbols[j].name => k = j
        /\ (LabelsInsideSections(instructions) /\ ~LabelsUnique(instructions)) =>
              "SymbolAlreadyDeclared" \in ErrorKinds(errors)

\* C12: a failure of to_bytes is reported as an error value and never ends
\* the process: no opcode, a label absent from the symbol table and a
\* string or other non-operand token in an operand slot each leave to_bytes
\* returning.
C12_EmissionErrorsAreValues ==
    instr_bytes.called => ~instr_bytes.exited

C17_ErrorsCollectedAndGate ==
    /\ [](AfterFirstPhase =>
            Len(errors) >= Cardinality(LabelsOutsideSections(instructions)))
    /\ [][(AfterFirstPhase /\ errors # <<>>) =>
            /\ actl' = "returned"
            /\ result' = Some(Err(errors))
            /\ body = <<>> /\ body' = <<>>]_vars

\* assemble has returned two errors of phase 1
C17_Witness ==
    /\ Returned
    /\ ~Assembled
    /\ Len(result[1].errors) >= 2
    /\ Cardinality(LabelsOutsideSections(instructions)) >= 2
    /\ body = <<>>

FirstPhaseStep == actl = "called" /\ source_parses /\ actl' # "called"

LoadOf(v) == <<Ins("LOAD", Some(Register(0)), Some(IntegerOperand(v)), None)>>

\* C19: after phase 1, LOAD $0 #65535 is still one instruction and
\* LOAD $0 #65536 has become two, the LOAD followed by a LUI.
C19_SplitAbove65535 ==
    [][FirstPhaseStep =>
          /\ instructions = LoadOf(65535) =>
                (actl' = "first_phase_done" /\ Len(instructions') = 1)
          /\ instructions = LoadOf(65536) =>
                /\ actl' = "first_phase_done"
                /\ Len(instructions') = 2
                /\ instructions'[1].opcode = Some(Op("LOAD"))
                /\ instructions'[2].opcode = Some(Op("LUI"))]_vars

IsLoadImmediate(i) ==
    /\ i.opcode = Some(Op("LOAD"))
    /\ i.operand_two # None
    /\ i.operand_two[1].kind = "IntegerOperand"

\* imm does not fit in a signed 16-bit integer
OutsideI16(i) ==
    IsLoadImmediate(i)
    /\ (i.operand_two[1].value > 32767 \/ i.operand_two[1].value < -32768)

SplitsBefore(p, k) == Cardinality({j \in 1..(k - 1) : OutsideI16(p[j])})

\* C20: phase 1 turns a LOAD reg #imm into LOAD followed by LUI exactly
\* when imm > 32767 or imm < -32768, and leaves every other instruction as
\* it is, in program order.
C20_SplitIffOutsideI16 ==
    [][(FirstPhaseStep
        /\ \A k \in 1..Len(instructions) :
              instructions[k].opcode = Some(Op("LOAD")) =>
                  IsLoadImmediate(instructions[k])) =>
          /\ actl' = "first_phase_done"
          /\ Len(instructions')
               = Len(instructions) + SplitsBefore(instructions, Len(instructions) + 1)
          /\ \A k \in 1..Len(instructions) :
                LET at == k + SplitsBefore(instructions, k)
                IN  IF OutsideI16(instructions[k])
                    THEN /\ instructions'[at].opcode = Some(Op("LOAD"))
                         /\ instructions'[at + 1].opcode = Some(Op("LUI"))
                    ELSE instructions'[at] = instructions[k]]_vars

-----------------------------------------------------------------------------
(* One turn of the execute loop, instruction by instruction *)

\* the step is one call of execute_instruction that returned
ExecuteStep == ctl = "loop" /\ ctl' # "aborted" /\ steps' = steps + 1

\* the fetch finds no byte at pc
PastEnd == pc < 0 \/ pc >= Len(program)

Fetches(op) == ~PastEnd /\ OpcodeFrom(program[pc + 1]) = op

\* the operand bytes of the instruction fetched at pc
OperandA == program[pc + 2]
OperandB == program[pc + 3]
OperandC == program[pc + 4]

\* C22: a turn of the loop returns an exit code exactly when it fetches HLT,
\* fetches IGL or an undefined byte, or finds pc at or past the end of the
\* program; the code is 1; HLT and IGL advance pc by 1 and change no
\* register, flag or heap byte; a turn with pc past the end changes nothing.
C22_ExitCodeOne ==
    [][ExecuteStep =>
         /\ is_done' # None <=> PastEnd \/ Fetches("HLT") \/ Fetches("IGL")
         /\ is_done' # None => is_done' = Some(1)
         /\ Fetches("HLT") \/ Fetches("IGL") =>
               /\ pc' = pc + 1
               /\ UNCHANGED <<registers, equal_flag, remainder, heap>>
         /\ PastEnd =>
               UNCHANGED <<pc, registers, equal_flag, remainder, heap>>]_vars

\* the loop stopped on the undefined byte 200
C22_Witness ==
    /\ ctl = "stopping"
    /\ is_done = Some(1)
    /\ pc >= 1 /\ pc <= Len(program)
    /\ program[pc] = 200

\* C23: LOAD A hi lo leaves hi * 256 + lo, a value of 0..65535, in R[A] and
\* changes no other register, nor the equal flag, the remainder or the heap.
C23_LoadZeroExtends ==
    [][ExecutesAt("LOAD") =>
         /\ registers' =
               [registers EXCEPT ![OperandA] = OperandB * 256 + OperandC]
         /\ registers'[OperandA] \in 0..65535
         /\ UNCHANGED <<equal_flag, remainder, heap>>]_vars

\* a LOAD whose high byte is 0x80 has run
C23_Witness == ctl = "loop" /\ steps >= 1 /\ registers[2] = 32768

Abs(x) == IF x < 0 THEN -x ELSE x

\* the quotient rounded toward zero and the remainder that goes with it
Quotient(a, b) ==
    IF (a < 0) = (b < 0) THEN Abs(a) \div Abs(b) ELSE -(Abs(a) \div Abs(b))
Rest(a, b) == a - b * Quotient(a, b)

ArithmeticOps == {"ADD", "SUB", "MUL", "DIV"}

Exact(op, a, b) ==
    CASE op = "ADD" -> a + b
      [] op = "SUB" -> a - b
      [] op = "MUL" -> a * b
      [] op = "DIV" -> Quotient(a, b)

\* C24: ADD, SUB, MUL and DIV with operands A, B, C leave R[A] op R[B], of
\* the values before the step, in R[C], change no other register and not the
\* equal flag; DIV leaves R[A] % R[B] in remainder and the others leave
\* remainder alone (R[B] # 0 for DIV, the result inside 32 bits).
C24_ArithmeticFrame ==
    [][\A op \in ArithmeticOps :
          ExecutesAt(op) =>
             LET a == registers[OperandA]
                 b == registers[OperandB]
             IN  /\ op = "DIV" => b # 0
                 /\ Exact(op, a, b) \in MinI32..MaxI32
                 => /\ registers' =
                          [registers EXCEPT ![OperandC] = Exact(op, a, b)]
                    /\ equal_flag' = equal_flag
                    /\ remainder' =
                          IF op = "DIV" THEN Rest(a, b) ELSE remainder]_vars

\* a DIV with a remainder has run: 72 / 5
C24_Witness == ctl = "loop" /\ registers[2] = 14 /\ remainder = 2

CompareOps == {"EQ", "NEQ", "GT", "LT", "GTQ", "LTQ"}

Holds(op, a, b) ==
    CASE op = "EQ" -> a = b
      [] op = "NEQ" -> a # b
      [] op = "GT" -> a > b
      [] op = "LT" -> a < b
      [] op = "GTQ" -> a >= b
      [] op = "LTQ" -> a <= b

\* C25: EQ, NEQ, GT, LT, GTQ and LTQ leave the truth value of R[A] cmp R[B]
\* in equal_flag, whatever it held, and change no register, nor the
\* remainder or the heap.
C25_CompareSetsFlag ==
    [][\A op \in CompareOps :
          ExecutesAt(op) =>
             /\ equal_flag' = Holds(op, registers[OperandA], registers[OperandB])
             /\ UNCHANGED <<registers, remainder, heap>>]_vars

\* NEQ set the flag and the EQ after it cleared it again
C25_Witness ==
    /\ ctl = "loop"
    /\ steps = 2
    /\ Len(program) >= 76
    /\ OpcodeFrom(program[69]) = "NEQ"
    /\ OpcodeFrom(program[73]) = "EQ"
    /\ registers[0] # registers[1]
    /\ pc = 76
    /\ ~equal_flag

\* C26: JMP sets pc to R[A]; JMPF adds R[A] to, and JMPB subtracts it from,
\* the pc that has passed the opcode and the register byte; no register and
\* no flag changes.
C26_JumpsChangeOnlyPc ==
    [][\A op \in {"JMP", "JMPF", "JMPB"} :
          ExecutesAt(op) =>
             /\ pc' = CASE op = "JMP" -> registers[OperandA]
                        [] op = "JMPF" -> pc + 2 + registers[OperandA]
                        [] op = "JMPB" -> pc + 2 - registers[OperandA]
             /\ UNCHANGED <<registers, equal_flag, remainder, heap>>]_vars

\* JMPF $0 at byte 68 with R[0] = 5
C26_Witness ==
    /\ ctl = "loop"
    /\ steps = 1
    /\ Len(program) >= 70
    /\ OpcodeFrom(program[69]) = "JMPF"
    /\ registers[0] = 5
    /\ pc = 75

\* C27: JEQ sets pc to R[A] when equal_flag is set and JNEQ when it is
\* clear; otherwise the instruction passes its four bytes and does nothing;
\* registers and equal_flag do not change.
C27_ConditionalJump ==
    [][\A op \in {"JEQ", "JNEQ"} :
          ExecutesAt(op) =>
             LET taken == IF op = "JEQ" THEN equal_flag ELSE ~equal_flag
             IN  /\ pc' = IF taken THEN registers[OperandA] ELSE pc + 4
                 /\ UNCHANGED <<registers, equal_flag>>]_vars

\* C28: ALOC A makes the heap R[A] bytes longer, keeps the bytes it held and
\* fills the new ones with zero; registers and flags do not change.
C28_AlocGrowsHeap ==
    [][ExecutesAt("ALOC") =>
         /\ Len(heap') = Len(heap) + registers[OperandA]
         /\ \A i \in 1..Len(heap') :
               heap'[i] = IF i <= Len(heap) THEN heap[i] ELSE 0
         /\ UNCHANGED <<registers, equal_flag, remainder>>]_vars

\* ALOC $0 with R[0] = 5 on the heap of a new machine
C28_Witness == ctl = "loop" /\ Len(heap) = 7 /\ heap[2] = 64 /\ heap[7] = 0

-----------------------------------------------------------------------------
(* The opcode numbering *)

-----------------------------------------------------------------------------
(* The unparsed rest of the source *)

Whitespace == {9, 10, 13, 32}

HasNonWhitespace(text) == \E k \in 1..Len(text) : text[k] \notin Whitespace

\* C29: when the parser leaves non-whitespace text unparsed, assemble
\* returns Err with a ParseError and no image.
C29_UnparsedTextIsParseError ==
    (actl = "returned" /\ HasNonWhitespace(leftover)) =>
        /\ ~result[1].ok
        /\ "ParseError" \in ErrorKinds(result[1].errors)

-----------------------------------------------------------------------------
(* SymbolTable: calls of add_symbol and set_symbol_offset on a new table:  *)
(* SpecSymbols                                                             *)

\* symbols a drawn table holds at most
MaxSymbols == 3

SymbolNames == {"test", "hi", "other"}
SymbolOffsets == {0, 4, 12}

InitSymbols ==
    /\ VmNew
    /\ registers = NewRegisters
    /\ program = <<>>
    /\ ctl = "unused"
    /\ AsmIdle
    /\ BytesIdle
    /\ sym_call = NoCall
    /\ command_buffer = <<>>
    /\ run_results = <<>>

\* add_symbol(Symbol::new(..)) or add_symbol(Symbol::new_with_offset(..))
AddSymbol ==
    /\ Len(symbols) < MaxSymbols
    /\ \E n \in SymbolNames :
       \E o \in {None} \cup {Some(v) : v \in SymbolOffsets} :
          /\ symbols' = add_symbol(symbols, IF o = None THEN Symbol_new(n)
                                            ELSE Symbol(n, o[1]))
          /\ sym_call' = [op |-> "add_symbol", name |-> n, offset |-> o,
                          returned |-> TRUE]
    /\ UNCHANGED <<instructions, ro, sections, current_section,
                   current_instruction, errors, phase, actl, source_parses,
                   leftover, body, result, vmVars, bytesVars,
                   replVars, runVars>>

SetSymbolOffset ==
    /\ \E n \in SymbolNames :
       \E v \in SymbolOffsets :
          /\ symbols' = set_symbol_offset(symbols, n, v).table
          /\ sym_call' = [op |-> "set_symbol_offset", name |-> n,
                          offset |-> Some(v),
                          returned |-> set_symbol_offset(symbols, n, v).ret]
    /\ UNCHANGED <<instructions, ro, sections, current_section,
                   current_instruction, errors, phase, actl, source_parses,
                   leftover, body, result, vmVars, bytesVars,
                   replVars, runVars>>

NextSymbols == AddSymbol \/ SetSymbolOffset

SpecSymbols == InitSymbols /\ [][NextSymbols]_vars

DistinctNames(table) ==
    \A i, j \in 1..Len(table) : i # j => table[i].name # table[j].name

\* the names other than n keep their answers over the step
OthersKeep(n) ==
    \A m \in SymbolNames \ {n} :
        /\ symbol_value(symbols', m) = symbol_value(symbols, m)
        /\ has_symbol(symbols', m) = has_symbol(symbols, m)

\* a new table holds no name, and a name the table does not hold has no value
C30_Absent ==
    /\ symbols = <<>> => \A n \in SymbolNames : ~has_symbol(symbols, n)
    /\ \A n \in SymbolNames :
          ~has_symbol(symbols, n) => symbol_value(symbols, n) = None

\* what one call does to the answers, while the names stay distinct
C30_Call ==
    DistinctNames(symbols') =>
       LET n == sym_call'.name
       IN  /\ sym_call'.op = "add_symbol" =>
                /\ has_symbol(symbols', n)
                /\ symbol_value(symbols', n) = sym_call'.offset
                /\ OthersKeep(n)
           /\ sym_call'.op = "set_symbol_offset" =>
                /\ sym_call'.returned = has_symbol(symbols, n)
                /\ has_symbol(symbols', n) = has_symbol(symbols, n)
                /\ sym_call'.returned =>
                      symbol_value(symbols', n) = sym_call'.offset
                /\ ~sym_call'.returned => symbols' = symbols
                /\ OthersKeep(n)

\* C30: on a table built by add_symbol and set_symbol_offset with distinct
\* names, symbol_value(n) is the offset last given to n, by the call that
\* added it or by set_symbol_offset, and None for a name never added;
\* has_symbol(n) holds exactly for the added names; set_symbol_offset(n, o)
\* returns true exactly when n is in the table and leaves the table as it
\* was when it returns false.
C30_SymbolTable == []C30_Absent /\ [][C30_Call]_vars

\* set_symbol_offset gave 12 to "test", the second symbol; "hi" has none
C30_Witness ==
    /\ Len(symbols) = 2
    /\ symbols[1].name = "hi"
    /\ symbols[2].name = "test"
    /\ sym_call.op = "set_symbol_offset"
    /\ sym_call.name = "test"
    /\ sym_call.returned
    /\ symbol_value(symbols, "test") = Some(12)
    /\ symbol_value(symbols, "hi") = None

-----------------------------------------------------------------------------
(* The splitting step of the first phase, LOAD by LOAD *)

\* the splitting step ran to its end
SplitStep == FirstPhaseStep /\ actl' # "aborted"

\* the step splits the instruction: a LOAD of an integer it finds too large
IsSplit(i) == IsLoadImmediate(i) /\ is_integer_needs_splitting(i)

SplitCountBefore(p, k) == Cardinality({j \in 1..(k - 1) : IsSplit(p[j])})

\* C31: a split LOAD reg #imm becomes LOAD reg #(imm mod 2^16) followed by
\* LUI reg #((imm >> 16) mod 2^16).  Stated for the first split LOAD of a
\* program, whose place the later inserts do not move.
C31_SplitHalves ==
    [][SplitStep =>
         \A k \in 1..Len(instructions) :
            (IsSplit(instructions[k]) /\ SplitCountBefore(instructions, k) = 0)
            => LET imm == instructions[k].operand_two[1].value
                   low == imm % 65536
                   high == (imm \div 65536) % 65536
               IN  /\ instructions'[k].opcode = Some(Op("LOAD"))
                   /\ instructions'[k].operand_one = instructions[k].operand_one
                   /\ instructions'[k].operand_two = Some(IntegerOperand(low))
                   /\ instructions'[k + 1].opcode = Some(Op("LUI"))
                   /\ instructions'[k + 1].operand_one
                         = instructions[k].operand_one
                   /\ instructions'[k + 1].operand_two
                         = Some(IntegerOperand(high))]_vars

\* C32: after the splitting step of a program with k >= 1 split LOADs the
\* program is k instructions longer, the original instructions stand in
\* their order (a split LOAD with a new immediate), and each LUI stands
\* right after the LOAD it was made from.
C32_LuiFollowsItsLoad ==
    [][(SplitStep /\ SplitCountBefore(instructions, Len(instructions) + 1) >= 1)
       => /\ Len(instructions')
               = Len(instructions)
                 + SplitCountBefore(instructions, Len(instructions) + 1)
          /\ \A k \in 1..Len(instructions) :
                LET at == k + SplitCountBefore(instructions, k)
                IN  IF IsSplit(instructions[k])
                    THEN /\ [instructions'[at] EXCEPT !.operand_two = None]
                            = [instructions[k] EXCEPT !.operand_two = None]
                         /\ instructions'[at + 1].opcode = Some(Op("LUI"))
                         /\ instructions'[at + 1].operand_one
                               = instructions[k].operand_one
                    ELSE instructions'[at] = instructions[k]]_vars

-----------------------------------------------------------------------------
(* Read-only data *)

EntryOffset == get_starting_offset(program)[1]

\* run has set pc for an image that holds its read-only bytes
Loaded ==
    /\ ctl = "loop"
    /\ Len(program) >= 68
    /\ EntryOffset >= 0
    /\ 68 + EntryOffset <= Len(program)

ImageReadOnly == SubSeq(program, 69, 68 + EntryOffset)

\* once loaded, ro_data is the image's bytes 68..68+k
C33_ReadOnlyLoaded == Loaded => ro_data = ImageReadOnly

\* PRTS whose operand points at a NUL-ended string of the read-only bytes
\* prints it and returns, with registers and flags as they were
C33_Prts ==
    (/\ Loaded
     /\ steps' = steps + 1
     /\ Fetches("PRTS")
     /\ pc + 2 < Len(program)
     /\ \E k \in (OperandA * 256 + OperandB + 1)..Len(ImageReadOnly) :
           ImageReadOnly[k] = 0)
    => /\ ctl' # "aborted"
       /\ UNCHANGED <<registers, equal_flag, remainder>>

\* C33: after run has loaded an image with entry offset k the read-only data
\* of the machine is the image's bytes 68..68+k, and PRTS with operand o
\* puts out the read-only bytes from o up to the first zero byte and leaves
\* registers and flags unchanged.
C33_ReadOnlyAndPrts == []C33_ReadOnlyLoaded /\ [][C33_Prts]_vars

-----------------------------------------------------------------------------
(* The heap of a new machine *)

\* C34: the first ALOC a new machine executes, with R[A] = n, leaves a heap
\* of exactly n bytes.
C34_FirstAlocGivesN ==
    [][(ExecutesAt("ALOC") /\ heap = NewHeap) =>
          Len(heap') = registers[OperandA]]_vars

-----------------------------------------------------------------------------
(* REPL::run: the interactive loop on a new REPL: SpecRepl *)

\* lines entered in one session
MaxCommands == 3

\* Program::to_bytes: the bytes of every instruction, one after the other;
\* None when a to_bytes ends the process
RECURSIVE Program_to_bytes(_, _)
Program_to_bytes(p, table) ==
    IF p = <<>> THEN Some(<<>>)
    ELSE LET rest == Program_to_bytes(Tail(p), table)
         IN  IF to_bytes(Head(p), table) = None \/ rest = None THEN None
             ELSE Some(to_bytes(Head(p), table)[1] \o rest[1])

\* the programs of the assembly lines that are entered
ReplLines ==
    { <<Ins("LOAD", Some(Register(0)), Some(IntegerOperand(8)), None)>>,
      <<Ins("INC", Some(Register(1)), None, None)>>,
      <<Ins("ALOC", Some(Register(0)), None, None)>>,
      <<Ins("JMP", Some(Register(0)), None, None)>>,
      <<Ins("HLT", None, None, None)>>,
      <<Ins("LOAD", Some(Register(0)), Some(IntegerOperand(4)), None),
        Ins("INC", Some(Register(0)), None, None)>>,
      <<Ins("JEQ", Some(LabelUsage("test")), None, None)>> }

\* an entry of command_buffer: the command, and the program of a line
Command(cmd) == [cmd |-> cmd, program |-> <<>>]
Line(p) == [cmd |-> "line", program |-> p]

InitRepl ==
    /\ VmNew
    /\ registers = NewRegisters
    /\ program = <<>>
    /\ ctl = "repl"
    /\ AsmIdle
    /\ BytesIdle
    /\ sym_call = NoCall
    /\ command_buffer = <<>>
    /\ run_results = <<>>

Prompt == ctl = "repl" /\ Len(command_buffer) < MaxCommands

\* lines 88-101: a line that parses is turned into bytes, appended to the
\* program of the machine, and run_once is called
Repl_Line ==
    /\ Prompt
    /\ \E p \in ReplLines :
          /\ command_buffer' = Append(command_buffer, Line(p))
          /\ IF Program_to_bytes(p, symbols) = None
             THEN /\ ctl' = "exited"
                  /\ UNCHANGED <<program, pc, registers, remainder,
                                 equal_flag, heap>>
             ELSE /\ program' = program \o Program_to_bytes(p, symbols)[1]
                  /\ \E o \in execute_instruction(program', ro_data, Machine) :
                        IF o.panic
                        THEN /\ ctl' = "aborted"
                             /\ UNCHANGED <<pc, registers, remainder,
                                            equal_flag, heap>>
                        ELSE /\ pc' = o.m.pc
                             /\ registers' = o.m.registers
                             /\ remainder' = o.m.remainder
                             /\ equal_flag' = o.m.equal_flag
                             /\ heap' = o.m.heap
                             /\ ctl' = "repl"
    /\ UNCHANGED <<ro_data, events, is_done, steps, asmVars, bytesVars,
                   symVars, runVars>>

\* lines 89-93: a line that does not parse
Repl_Unparsed ==
    /\ Prompt
    /\ command_buffer' = Append(command_buffer, Command("?"))
    /\ UNCHANGED <<vmVars, asmVars, bytesVars, symVars, runVars>>

\* line 63
Repl_Clear ==
    /\ Prompt
    /\ command_buffer' = Append(command_buffer, Command(".clear"))
    /\ program' = <<>>
    /\ UNCHANGED <<pc, registers, remainder, equal_flag, heap, ro_data,
                   events, ctl, is_done, steps, asmVars, bytesVars, symVars, runVars>>

\* lines 46-62: .history, .program and .registers only print
Repl_Show ==
    /\ Prompt
    /\ \E c \in {".history", ".program", ".registers"} :
          command_buffer' = Append(command_buffer, Command(c))
    /\ UNCHANGED <<vmVars, asmVars, bytesVars, symVars, runVars>>

\* lines 64-86: the program of a file is appended and not run
Repl_LoadFile ==
    /\ Prompt
    /\ \E p \in ReplLines :
          /\ command_buffer' = Append(command_buffer, Command(".load_file"))
          /\ IF Program_to_bytes(p, symbols) = None
             THEN ctl' = "exited" /\ UNCHANGED program
             ELSE /\ program' = program \o Program_to_bytes(p, symbols)[1]
                  /\ UNCHANGED ctl
    /\ UNCHANGED <<pc, registers, remainder, equal_flag, heap, ro_data,
                   events, is_done, steps, asmVars, bytesVars, symVars, runVars>>

\* lines 42-45
Repl_Quit ==
    /\ Prompt
    /\ command_buffer' = Append(command_buffer, Command(".quit"))
    /\ ctl' = "exited"
    /\ UNCHANGED <<program, pc, registers, remainder, equal_flag, heap,
                   ro_data, events, is_done, steps, asmVars, bytesVars,
                   symVars, runVars>>

NextRepl ==
    \/ Repl_Line
    \/ Repl_Unparsed
    \/ Repl_Clear
    \/ Repl_Show
    \/ Repl_LoadFile
    \/ Repl_Quit

SpecRepl == InitRepl /\ [][NextRepl]_vars

\* only assembly lines and .clear have been entered
OnlyLinesAndClear(buf) ==
    \A k \in 1..Len(buf) : buf[k].cmd \in {"line", ".clear"}

\* the step appends the bytes of an assembly line and calls run_once
LineStep ==
    /\ Len(command_buffer') = Len(command_buffer) + 1
    /\ command_buffer'[Len(command_buffer')].cmd = "line"
    /\ ctl' # "exited"

\* C35: whatever assembly lines and .clear were entered, the step taken
\* after an assembly line executes the first instruction of that line: pc
\* is then the length the program had before the line's bytes were added.
C35_StepExecutesTheLine ==
    [][(LineStep /\ OnlyLinesAndClear(command_buffer')) =>
          pc = Len(program)]_vars

-----------------------------------------------------------------------------
(* Straight-line code *)

CodeStart == 68 + EntryOffset

\* byte offsets at which the 4-byte instructions of the code start
InstructionStarts ==
    {i \in CodeStart..(Len(program) - 1) : (i - CodeStart) % 4 = 0}

\* a valid header, then whole 4-byte instructions, none of them a jump or a
\* PRTS, with register indices below 32
StraightLine ==
    /\ HeaderMatches
    /\ Len(program) >= 68
    /\ EntryOffset >= 0
    /\ CodeStart <= Len(program)
    /\ (Len(program) - CodeStart) % 4 = 0
    /\ \A i \in InstructionStarts :
          LET op == OpcodeFrom(program[i + 1])
          IN  /\ op \notin JumpCodes \cup {"PRTS"}
              /\ program[i + 2] < 32
              /\ op # "LOAD" => program[i + 3] < 32 /\ program[i + 4] < 32

DividesByZero ==
    Fetches("DIV") /\ pc + 2 < Len(program) /\ OperandB < 32
    /\ registers[OperandB] = 0

\* a turn of the loop on straight-line code moves pc forward unless it ends
\* the run, and it fails only on a division by zero
C36_Step ==
    (StraightLine /\ ctl = "loop" /\ steps' = steps + 1) =>
        /\ (ctl' = "loop") => pc' > pc
        /\ (ctl' = "aborted") => DividesByZero

\* the run of straight-line code has ended within the bound; the turn that
\* finds pc past the end executes nothing and is not counted
C36_Bound ==
    (StraightLine /\ ctl \in {"stopping", "returned"}) =>
        steps <= Len(program) - CodeStart + 1

\* C36: on an image with a valid header whose code has no JMP, JMPF, JMPB,
\* JEQ or JNEQ (no DIV by zero, no PRTS, register indices below 32) every
\* execute step moves pc forward, so run ends with GracefulStop after at
\* most program length - starting pc steps.
C36_StraightLineTerminates == [][C36_Step]_vars /\ []C36_Bound

-----------------------------------------------------------------------------
(* VirtualMachine::run called again and again on one machine: SpecRuns *)

\* calls of run on one machine
MaxRuns == 3

\* a header and at most one instruction, and the programs run rejects
RunProgram(prog) ==
    \/ prog \in BadHeaderPrograms
    \/ prog \in ReadOnlyImages
    \/ prog = prepend_header(<<>>)
    \/ \E i \in VmInstrs : prog = prepend_header(i)

InitRuns ==
    /\ VmNew
    /\ registers \in {NewRegisters, TestRegisters}
    /\ RunProgram(program)
    /\ ctl = "new"
    /\ AsmIdle
    /\ BytesIdle
    /\ sym_call = NoCall
    /\ command_buffer = <<>>
    /\ run_results = <<>>

Run_StartAgain_with_new_log ==
    /\ ctl = "returned"
    /\ Len(run_results) < MaxRuns
    /\ events' = <<StartEvent>>
    /\ ctl' = "started"
    /\ is_done' = None
    /\ steps' = 0
    /\ UNCHANGED <<program, pc, registers, remainder, equal_flag, heap,
                   ro_data, asmVars, bytesVars, symVars, replVars, runVars>>

\* lines 109-113 of a later call: the machine is as the last call left it,
\* the locals of run are new
Run_StartAgain ==
    /\ ctl = "returned"
    /\ Len(run_results) < MaxRuns
    /\ events' = Append(events, StartEvent)
    /\ ctl' = "started"
    /\ is_done' = None
    /\ steps' = 0
    /\ UNCHANGED <<program, pc, registers, remainder, equal_flag, heap,
                   ro_data, asmVars, bytesVars, symVars, replVars, runVars>>

NextRuns ==
    \/ Run_Start
    \/ Run_StartAgain
    \/ Run_VerifyHeader
    \/ Run_SetPc
    \/ Run_Execute
    \/ Run_Stop

SpecRuns == InitRuns /\ [][NextRuns]_vars

\* no call of run is under way
BetweenCalls == ctl \in {"new", "returned"}

\* Start and a terminal event, in turn
Alternates(log) ==
    \A k \in 1..Len(log) :
        IF k % 2 = 1 THEN log[k].type = "Start"
        ELSE log[k].type \in {"Crash", "GracefulStop"}

\* after k completed calls the log holds 2k events in turn, and the j-th
\* call returned the log as it then was, which is still how the log begins
C37_Log ==
    /\ BetweenCalls =>
          (Len(events) = 2 * Len(run_results) /\ Alternates(events))
    /\ \A j \in 1..Len(run_results) :
          /\ 2 * j <= Len(events)
          /\ run_results[j] = SubSeq(events, 1, 2 * j)

\* the log only grows, at its end
C37_Grows ==
    /\ Len(events') >= Len(events)
    /\ SubSeq(events', 1, Len(events)) = events

\* C37: over repeated runs of one machine the log only grows and stays
\* well-formed: after k completed calls of run it holds exactly 2k events,
\* Start and a terminal event in turn, no earlier event is changed or
\* removed, and each call returns a copy of the whole log.
C37_EventLogGrows == []C37_Log /\ [][C37_Grows]_vars

\* three calls have returned, the last two with GracefulStop
C37_Witness ==
    /\ ctl = "returned"
    /\ Len(run_results) = 3
    /\ Len(events) = 6
    /\ events[4].type = "GracefulStop"
    /\ events[6].type = "GracefulStop"
    /\ run_results[1] = SubSeq(events, 1, 2)

-----------------------------------------------------------------------------
(* Assembler::assemble called again and again on one Assembler: SpecAgain  *)

\* errors an Assembler may hold when assemble is called once more
MaxErrors == 1

\* the programs of the sources given to the calls
RepeatPrograms ==
    { AssembleProgramTest,
      <<Ins("HLT", None, None, None)>>,
      <<Labelled("test", Ins("INC", Some(Register(0)), None, None))>>,
      <<Ins("LOAD", Some(Register(1)), Some(IntegerOperand(70000)), None)>>,
      <<Ins("LOAD", Some(Register(0)), None, None)>> }

InitAgain ==
    /\ VmNew
    /\ registers = NewRegisters
    /\ program = <<>>
    /\ ctl = "unloaded"
    /\ BytesIdle
    /\ sym_call = NoCall
    /\ command_buffer = <<>>
    /\ run_results = <<>>
    /\ AsmNew
    /\ source_parses \in BOOLEAN
    /\ leftover \in Leftovers
    /\ instructions \in (IF source_parses THEN RepeatPrograms ELSE {<<>>})
    /\ actl = "called"
    /\ body = <<>>
    /\ result = None

\* assemble is called on the Assembler as the last call left it
Assemble_Again ==
    /\ actl = "returned"
    /\ Len(errors) <= MaxErrors
    /\ source_parses' \in BOOLEAN
    /\ leftover' \in Leftovers
    /\ instructions' \in (IF source_parses' THEN RepeatPrograms ELSE {<<>>})
    /\ actl' = "called"
    /\ body' = <<>>
    /\ result' = None
    /\ UNCHANGED <<symbols, ro, sections, current_section,
                   current_instruction, errors, phase, vmVars, bytesVars,
                   symVars, replVars, runVars>>

NextAgain ==
    \/ Assemble_ParseError
    \/ Assemble_FirstPhase
    \/ Assemble_Checks
    \/ Assemble_Again

SpecAgain == InitAgain /\ [][NextAgain]_vars

IsPrefix(a, b) == Len(a) <= Len(b) /\ SubSeq(b, 1, Len(a)) = a

\* with errors on the list, a call on a source that parses returns, and
\* returns Err with the whole list
C38_ReturnsErr ==
    /\ errors # <<>> => actl # "aborted"
    /\ (actl = "returned" /\ source_parses /\ errors # <<>>) =>
          (~result[1].ok /\ result[1].errors = errors)

\* C38: the error list of an Assembler only grows, so once a call of
\* assemble has returned Err for an error of phase 1 or of the sections,
\* every later call on a source that parses returns Err too, with a list
\* that holds the earlier errors.
C38_ErrorsPersist == []C38_ReturnsErr /\ [][IsPrefix(errors, errors')]_vars

====
